---------------------------- MODULE Spec2Model ----------------------------
(***************************************************************************)
(* The call-transcript keyword annotation of the dashboard: the            *)
(* TranscriptViewer component (KEYWORD_PATTERNS, the useMemo callback      *)
(* highlightedTranscript, the rendered legend and the innerHTML it hands   *)
(* to the browser).                                                        *)
(*                                                                         *)
(* JavaScript strings are TLA+ strings; offsets are JavaScript's (from 0). *)
(* A value of type string | null | undefined is a record [type, value].    *)
(***************************************************************************)
EXTENDS Integers, Sequences, FiniteSets, TLC

(***************************************************************************)
(* Bounds of the model.                                                    *)
(***************************************************************************)
\* The transcripts of Spec are all sentences of 1..MaxWords words of Vocabulary.
MaxWords == 2

(***************************************************************************)
(* Strings.                                                                *)
(***************************************************************************)
UpperCase == <<"A","B","C","D","E","F","G","H","I","J","K","L","M",
               "N","O","P","Q","R","S","T","U","V","W","X","Y","Z">>
LowerCase == <<"a","b","c","d","e","f","g","h","i","j","k","l","m",
               "n","o","p","q","r","s","t","u","v","w","x","y","z">>
Letters == {UpperCase[n] : n \in DOMAIN UpperCase} \cup {LowerCase[n] : n \in DOMAIN LowerCase}
Digit == {"0","1","2","3","4","5","6","7","8","9"}
\* \w of a JavaScript regular expression
WordChar == Letters \cup Digit \cup {"_"}
\* \s, as far as the transcripts of the model go
WhiteSpace == {" ", "\t", "\n", "\r"}

Min(a, b) == IF a <= b THEN a ELSE b

\* s.charAt(n)
CharAt(s, n) == IF n < 0 \/ n >= Len(s) THEN "" ELSE SubSeq(s, n + 1, n + 1)

\* s.slice(from, to), for 0 <= from, to
Slice(s, from, to) == SubSeq(s, Min(from, Len(s)) + 1, Min(to, Len(s)))

\* s.slice(from)
SliceFrom(s, from) == Slice(s, from, Len(s))

\* s.startsWith(prefix, n)
StartsWithAt(s, prefix, n) == Slice(s, n, n + Len(prefix)) = prefix

\* The canonical form under which the i flag compares characters.
Canonical(c) ==
  IF \E n \in DOMAIN UpperCase : UpperCase[n] = c
  THEN LowerCase[CHOOSE n \in DOMAIN UpperCase : UpperCase[n] = c]
  ELSE c

RECURSIVE Canonicalize(_)
Canonicalize(s) == IF s = "" THEN "" ELSE Canonical(Head(s)) \o Canonicalize(Tail(s))

\* s.indexOf(sub, from)
IndexOf(s, sub, from) ==
  LET at == {n \in from..(Len(s) - Len(sub)) : StartsWithAt(s, sub, n)}
  IN IF at = {} THEN -1 ELSE CHOOSE n \in at : \A m \in at : n <= m

(***************************************************************************)
(* string | null | undefined                                               *)
(***************************************************************************)
Null == [type |-> "null", value |-> ""]
Undefined == [type |-> "undefined", value |-> ""]
Str(s) == [type |-> "string", value |-> s]

\* A slip: transcript == null in place of !transcript.
FalsyNullish(v) == v.type # "string"

\* !v
Falsy(v) == v.type # "string" \/ v.value = ""

(***************************************************************************)
(* Regular expressions: a pattern is a tree, and matching is the           *)
(* backtracking search of the JavaScript engine.  Ends(re, text, pos) is   *)
(* the sequence of offsets at which a match of re that starts at pos can   *)
(* end, in the order in which backtracking tries them, so that the match   *)
(* the engine reports for a whole pattern is the first one.  text is in    *)
(* canonical form (the i flag) and so are the literals of the patterns.    *)
(***************************************************************************)
Lit(s) == [k |-> "lit", s |-> s, set |-> {}, sub |-> <<>>, min |-> 0, max |-> 0]
Class(S) == [k |-> "class", s |-> "", set |-> S, sub |-> <<>>, min |-> 0, max |-> 0]
WordBoundary == [k |-> "b", s |-> "", set |-> {}, sub |-> <<>>, min |-> 0, max |-> 0]
Cat(parts) == [k |-> "cat", s |-> "", set |-> {}, sub |-> parts, min |-> 0, max |-> 0]
Alt(alts) == [k |-> "alt", s |-> "", set |-> {}, sub |-> alts, min |-> 0, max |-> 0]
\* re{lo,hi}, greedy; hi = -1 is no upper limit
Rep(re, lo, hi) == [k |-> "rep", s |-> "", set |-> {}, sub |-> <<re>>, min |-> lo, max |-> hi]
Opt(re) == Rep(re, 0, 1)
Star(re) == Rep(re, 0, -1)
Plus(re) == Rep(re, 1, -1)
\* A slip: the words of a keyword with other words allowed between them, as in
\* lost\s+(?:\w+\s+)*job for "lost job".
KeywordWords(w) ==
  LET sp == IndexOf(w, " ", 0)
  IN IF sp = -1 THEN Lit(w)
     ELSE Cat(<<Lit(Slice(w, 0, sp)), Plus(Class(WhiteSpace)),
                Star(Cat(<<Plus(Class(WordChar)), Plus(Class(WhiteSpace))>>)),
                Lit(SliceFrom(w, sp + 1))>>)

\* One alternative of a keyword pattern: the characters of the keyword, a space
\* of a multi-word keyword being one space character.
Keyword(w) == Lit(w)

\* \b(?:w1|w2|...)\b
Keywords(ws) == Cat(<<WordBoundary, Alt([n \in DOMAIN ws |-> Keyword(ws[n])]), WordBoundary>>)

IsWordAt(text, n) == n >= 0 /\ n < Len(text) /\ CharAt(text, n) \in WordChar

RECURSIVE Ends(_, _, _), EndsAt(_, _, _), EndsCat(_, _, _, _), EndsCatFrom(_, _, _, _, _),
          EndsAlt(_, _, _, _), EndsRep(_, _, _, _), EndsRepFrom(_, _, _, _, _, _)
\* EndsAt of the values of the arguments.  (Inside ENABLED, TLC evaluates an
\* argument of an operator again at each of its uses; a bound variable is a
\* value.)
Ends(re, text, pos) ==
  CHOOSE es \in {EndsAt(x.re, x.text, x.pos) : x \in {[re |-> re, text |-> text, pos |-> pos]}} :
    TRUE

EndsAt(re, text, pos) ==
  CASE re.k = "lit" ->
         IF pos + Len(re.s) <= Len(text) /\ Slice(text, pos, pos + Len(re.s)) = re.s
         THEN <<pos + Len(re.s)>> ELSE <<>>
    [] re.k = "class" ->
         IF pos < Len(text) /\ CharAt(text, pos) \in re.set THEN <<pos + 1>> ELSE <<>>
    [] re.k = "b" ->
         IF IsWordAt(text, pos - 1) # IsWordAt(text, pos) THEN <<pos>> ELSE <<>>
    [] re.k = "cat" -> EndsCat(re.sub, 1, text, pos)
    [] re.k = "alt" -> EndsAlt(re.sub, 1, text, pos)
    [] re.k = "rep" -> EndsRep(re, 0, text, pos)

\* parts[n..] matched from pos
EndsCat(parts, n, text, pos) ==
  IF n > Len(parts) THEN <<pos>>
  ELSE CHOOSE r \in {EndsCatFrom(es, 1, parts, n, text) : es \in {Ends(parts[n], text, pos)}} :
         TRUE

EndsCatFrom(es, j, parts, n, text) ==
  IF j > Len(es) THEN <<>>
  ELSE EndsCat(parts, n + 1, text, es[j]) \o EndsCatFrom(es, j + 1, parts, n, text)

\* the alternatives in their order
EndsAlt(alts, n, text, pos) ==
  IF n > Len(alts) THEN <<>>
  ELSE Ends(alts[n], text, pos) \o EndsAlt(alts, n + 1, text, pos)

\* greedy: one more repetition is tried before stopping after n of them
EndsRep(re, n, text, pos) ==
  (IF re.max = -1 \/ n < re.max
   THEN CHOOSE r \in {EndsRepFrom(es, 1, re, n, text, pos) : es \in {Ends(re.sub[1], text, pos)}} :
          TRUE
   ELSE <<>>)
  \o (IF n >= re.min THEN <<pos>> ELSE <<>>)

EndsRepFrom(es, j, re, n, text, pos) ==
  IF j > Len(es) THEN <<>>
  ELSE (IF es[j] > pos THEN EndsRep(re, n + 1, text, es[j]) ELSE <<>>)
       \o EndsRepFrom(es, j + 1, re, n, text, pos)

(***************************************************************************)
(* regex.exec(str) of a pattern with the g and i flags, the RegExp object  *)
(* having the given lastIndex: the leftmost match at or after lastIndex.   *)
(* A match leaves lastIndex at its end; no match (null) resets it to 0.    *)
(***************************************************************************)
\* A slip: a pattern without the g flag, as new RegExp(pattern.source, "i")
\* makes: exec searches from 0 and leaves lastIndex alone.
RegExpExecFirst(re, str, text, lastIndex) ==
  LET at == {n \in 0..Len(str) : Ends(re, text, n) # <<>>}
  IN IF at = {}
     THEN [found |-> FALSE, index |-> 0, text |-> "", lastIndex |-> lastIndex]
     ELSE LET index == CHOOSE n \in at : \A m \in at : n <= m
              end == Head(Ends(re, text, index))
          IN [found |-> TRUE, index |-> index, text |-> Slice(str, index, end),
              lastIndex |-> lastIndex]

\* exec on str, text being str in canonical form.
RegExpExecAt(re, str, text, lastIndex) ==
  LET at == {n \in lastIndex..Len(str) : Ends(re, text, n) # <<>>}
  IN IF at = {}
     THEN [found |-> FALSE, index |-> 0, text |-> "", lastIndex |-> 0]
     ELSE LET index == CHOOSE n \in at : \A m \in at : n <= m
              end == Head(Ends(re, text, index))
          IN [found |-> TRUE, index |-> index, text |-> Slice(str, index, end),
              lastIndex |-> end]

\* A slip: a pattern without the i flag, str compared as it is.
RegExpExecCase(re, str, lastIndex) == RegExpExecAt(re, str, str, lastIndex)

RegExpExec(re, str, lastIndex) ==
  CHOOSE m \in {RegExpExecAt(x.re, x.str, x.text, x.lastIndex) :
                  x \in {[re |-> re, str |-> str, text |-> Canonicalize(str),
                          lastIndex |-> lastIndex]}} : TRUE

(***************************************************************************)
(* KEYWORD_PATTERNS, in the order of Object.entries.                       *)
(***************************************************************************)
MoneyPattern ==
  Alt(<<Cat(<<Lit("$"), Plus(Class(Digit \cup {","})),
              Opt(Cat(<<Lit("."), Rep(Class(Digit), 2, 2)>>))>>),
        Cat(<<WordBoundary, Rep(Class(Digit), 1, 3),
              Star(Cat(<<Lit(","), Rep(Class(Digit), 3, 3)>>)),
              Opt(Cat(<<Lit("."), Rep(Class(Digit), 2, 2)>>)),
              Star(Class(WhiteSpace)),
              Alt(<<Cat(<<Lit("dollar"), Opt(Lit("s"))>>),
                    Lit("thousand"), Lit("k"), Lit("grand")>>)>>)>>)

KEYWORD_PATTERNS == <<
  [type |-> "money", pattern |-> MoneyPattern,
   className |-> "bg-emerald-500/20 text-emerald-700 dark:text-emerald-300 px-0.5 rounded font-medium",
   label |-> "Money"],
  [type |-> "debt",
   pattern |-> Keywords(<<"debt", "owe", "owing", "creditor", "collection", "balance",
                          "outstanding", "delinquent", "past due", "charged off", "default">>),
   className |-> "bg-purple-500/20 text-purple-700 dark:text-purple-300 px-0.5 rounded",
   label |-> "Debt"],
  [type |-> "income",
   pattern |-> Keywords(<<"income", "salary", "wage", "earn", "make", "paycheck", "monthly",
                          "weekly", "hourly", "job", "work", "employed", "employment",
                          "unemployed">>),
   className |-> "bg-blue-500/20 text-blue-700 dark:text-blue-300 px-0.5 rounded",
   label |-> "Income"],
  [type |-> "hardship",
   pattern |-> Keywords(<<"hardship", "struggle", "struggling", "difficult", "trouble",
                          "behind", "late", "can't pay", "cannot pay", "missed", "medical",
                          "hospital", "surgery", "lost job", "laid off", "divorce", "death">>),
   className |-> "bg-orange-500/20 text-orange-700 dark:text-orange-300 px-0.5 rounded",
   label |-> "Hardship"],
  [type |-> "objection",
   pattern |-> Keywords(<<"not interested", "no thank", "hang up", "stop calling", "busy",
                          "bad time", "call back", "later", "too much", "expensive", "scam",
                          "fraud", "not real", "legitimate">>),
   className |-> "bg-red-500/20 text-red-700 dark:text-red-300 px-0.5 rounded",
   label |-> "Objection"],
  [type |-> "dnc",
   pattern |-> Keywords(<<"do not call", "don't call", "stop calling", "remove",
                          "take me off", "no more calls", "never call", "attorney", "lawyer",
                          "sue", "harassment", "report", "ftc", "fcc", "complaint">>),
   className |-> "bg-red-600/30 text-red-800 dark:text-red-200 px-0.5 rounded font-semibold border border-red-500/50",
   label |-> "DNC"],
  [type |-> "positive",
   pattern |-> Keywords(<<"yes", "interested", "help", "need", "want", "agree", "okay",
                          "transfer", "connect", "speak", "talk to", "qualify", "eligible">>),
   className |-> "bg-green-500/20 text-green-700 dark:text-green-300 px-0.5 rounded",
   label |-> "Positive"] >>

Categories == DOMAIN KEYWORD_PATTERNS

\* KEYWORD_PATTERNS[type]
CategoryOf(type) == CHOOSE c \in Categories : KEYWORD_PATTERNS[c].type = type


(***************************************************************************)
(* The callback of useMemo (highlightedTranscript), as functions of its    *)
(* locals.                                                                 *)
(***************************************************************************)
\* A slip: end as the offset of the last character of the match.
HighlightInclusive(c, m) ==
  [start |-> m.index, end |-> m.index + Len(m.text) - 1, type |-> KEYWORD_PATTERNS[c].type,
   text |-> m.text]

\* highlights.push({start, end, type, text}) for a match m of category c
Highlight(c, m) ==
  [start |-> m.index, end |-> m.index + Len(m.text), type |-> KEYWORD_PATTERNS[c].type,
   text |-> m.text]

\* A slip: highlights.unshift(h).
Unshift(hs, h) == <<h>> \o hs

\* highlights.push(h)
Push(hs, h) == Append(hs, h)

\* The while loop of one category, the RegExp object starting at lastIndex:
\* every match that exec finds until it returns null.
RECURSIVE ScanCategory(_, _, _)
ScanCategory(c, str, lastIndex) ==
  LET m == RegExpExec(KEYWORD_PATTERNS[c].pattern, str, lastIndex)
  IN IF ~m.found THEN <<>>
     ELSE <<Highlight(c, m)>> \o ScanCategory(c, str, m.lastIndex)

\* Object.entries(KEYWORD_PATTERNS).forEach(...): the categories c.. in order,
\* each with a RegExp object of its own (lastIndex 0).
RECURSIVE ScanFrom(_, _)
ScanFrom(c, str) ==
  IF c > Len(KEYWORD_PATTERNS) THEN <<>>
  ELSE ScanCategory(c, str, 0) \o ScanFrom(c + 1, str)

\* A slip: hs.sort((a, b) => a.start - b.start).
RECURSIVE SortByStartAsc(_)
SortByStartAsc(hs) ==
  IF hs = <<>> THEN <<>>
  ELSE LET top == CHOOSE n \in DOMAIN hs :
                    /\ \A m \in DOMAIN hs : hs[n].start <= hs[m].start
                    /\ \A m \in 1..(n - 1) : hs[n].start < hs[m].start
           rest == [m \in 1..(Len(hs) - 1) |-> IF m < top THEN hs[m] ELSE hs[m + 1]]
       IN <<hs[top]>> \o SortByStartAsc(rest)

\* hs.sort((a, b) => b.start - a.start): descending start; Array.prototype.sort
\* is stable, so highlights of equal start keep the order of the scan.
RECURSIVE SortByStartDesc(_)
SortByStartDesc(hs) ==
  IF hs = <<>> THEN <<>>
  ELSE LET top == CHOOSE n \in DOMAIN hs :
                    /\ \A m \in DOMAIN hs : hs[m].start <= hs[n].start
                    /\ \A m \in 1..(n - 1) : hs[m].start < hs[n].start
           rest == [m \in 1..(Len(hs) - 1) |-> IF m < top THEN hs[m] ELSE hs[m + 1]]
       IN <<hs[top]>> \o SortByStartDesc(rest)

\* `<span class="${className}">${text}</span>`
SpanOpen(className) == "<span class=\"" \o className \o "\">"
SpanClose == "</span>"
Span(className, text) == SpanOpen(className) \o text \o SpanClose

\* One iteration of highlights.forEach: the new value of result.
Splice(result, h) ==
  LET before == Slice(result, 0, h.start)
      after == SliceFrom(result, h.end)
      className == KEYWORD_PATTERNS[CategoryOf(h.type)].className
  IN before \o Span(className, h.text) \o after

RECURSIVE SpliceAll(_, _, _)
SpliceAll(result, hs, n) ==
  IF n > Len(hs) THEN result ELSE SpliceAll(Splice(result, hs[n]), hs, n + 1)

\* The value of the whole callback for a transcript, run on its own.
HighlightedTranscript(t) ==
  IF Falsy(t) THEN Null
  ELSE Str(SpliceAll(t.value, SortByStartDesc(ScanFrom(1, t.value)), 1))


(***************************************************************************)
(* The element the component returns, and the legend in it.                *)
(***************************************************************************)
\* A slip: the legend rendered without looking at showLegend.
LegendAlways(show) ==
  [c \in Categories |->
     [key |-> KEYWORD_PATTERNS[c].type,
      className |-> KEYWORD_PATTERNS[c].className \o " px-1.5 py-0.5",
      label |-> KEYWORD_PATTERNS[c].label]]

\* A slip: {key} rendered in place of {label}.
LegendOfKeys(show) ==
  IF show
  THEN [c \in Categories |->
          [key |-> KEYWORD_PATTERNS[c].type,
           className |-> KEYWORD_PATTERNS[c].className \o " px-1.5 py-0.5",
           label |-> KEYWORD_PATTERNS[c].type]]
  ELSE <<>>

\* Lines 96-105: with showLegend, one entry per entry of KEYWORD_PATTERNS.
Legend(show) ==
  IF show
  THEN [c \in Categories |->
          [key |-> KEYWORD_PATTERNS[c].type,
           className |-> KEYWORD_PATTERNS[c].className \o " px-1.5 py-0.5",
           label |-> KEYWORD_PATTERNS[c].label]]
  ELSE <<>>

\* Lines 86-111: what the component returns for its props and the memoised value.
Element(t, show, memoised) ==
  IF Falsy(t)
  THEN [kind |-> "empty", text |-> "No transcript available", legend |-> <<>>, html |-> ""]
  ELSE [kind |-> "viewer", text |-> "", legend |-> Legend(show),
        html |-> IF Falsy(memoised) THEN t.value ELSE memoised.value]

NoElement == [kind |-> "none", text |-> "", legend |-> <<>>, html |-> ""]

(***************************************************************************)
(* What the browser makes of the innerHTML (line 108): the tokens of the   *)
(* HTML, and from them the pieces of text on display, each plain or inside *)
(* a span element.  A "<" opens a tag when a letter, or "/" and a letter,  *)
(* follows it, and the tag runs to the next ">"; any other "<" is text.    *)
(***************************************************************************)
IsTagAt(html, n) ==
  /\ CharAt(html, n) = "<"
  /\ \/ CharAt(html, n + 1) \in Letters
     \/ CharAt(html, n + 1) = "/" /\ CharAt(html, n + 2) \in Letters

\* The offset of the first tag at or after pos, or -1.
NextTag(html, pos) ==
  LET at == {n \in pos..(Len(html) - 1) : IsTagAt(html, n)}
  IN IF at = {} THEN -1 ELSE CHOOSE n \in at : \A m \in at : n <= m

TextToken(s) == IF s = "" THEN <<>> ELSE <<[tok |-> "text", s |-> s]>>

\* The tag whose source is s: <name ...> or </name>.
TagToken(s) ==
  LET end == CharAt(s, 1) = "/"
      from == IF end THEN 2 ELSE 1
      stops == {n \in from..(Len(s) - 1) : CharAt(s, n) \notin Letters \cup Digit}
      stop == CHOOSE n \in stops : \A m \in stops : n <= m
  IN [tok |-> IF end THEN "end" ELSE "start", s |-> s, name |-> Canonicalize(Slice(s, from, stop))]

RECURSIVE Tokens(_, _)
Tokens(html, pos) ==
  LET lt == NextTag(html, pos)
      gt == IF lt = -1 THEN -1 ELSE IndexOf(html, ">", lt)
  IN IF lt = -1 THEN TextToken(SliceFrom(html, pos))
     ELSE IF gt = -1 THEN TextToken(Slice(html, pos, lt))
     ELSE TextToken(Slice(html, pos, lt))
          \o <<[tok |-> "tag", s |-> Slice(html, lt, gt + 1)]>>
          \o Tokens(html, gt + 1)

\* The value of the class attribute of a start tag, "" without one.
ClassAttribute(s) ==
  LET at == IndexOf(s, " class=\"", 0)
      from == at + Len(" class=\"")
      to == IF at = -1 THEN -1 ELSE IndexOf(s, "\"", from)
  IN IF at = -1 \/ to = -1 THEN "" ELSE Slice(s, from, to)

\* The pieces of tokens[n..], open being the start tags of the elements that are
\* open, innermost last.  An end tag closes the innermost open element of its name
\* and the ones inside it; one that matches no open element is ignored.
RECURSIVE PiecesFrom(_, _, _)
PiecesFrom(tokens, n, open) ==
  IF n > Len(tokens) THEN <<>>
  ELSE LET t == tokens[n]
       IN IF t.tok = "text"
          THEN <<[kind |-> IF open # <<>> /\ open[Len(open)].name = "span"
                           THEN "highlighted" ELSE "plain",
                  text |-> t.s,
                  className |-> IF open = <<>> THEN "" ELSE ClassAttribute(open[Len(open)].s),
                  depth |-> Len(open)]>>
               \o PiecesFrom(tokens, n + 1, open)
          ELSE LET tag == TagToken(t.s)
                   same == {m \in DOMAIN open : open[m].name = tag.name}
               IN IF tag.tok = "start"
                  THEN PiecesFrom(tokens, n + 1, Append(open, tag))
                  ELSE IF same = {} THEN PiecesFrom(tokens, n + 1, open)
                  ELSE PiecesFrom(tokens, n + 1,
                                  SubSeq(open, 1, (CHOOSE m \in same : \A l \in same : l <= m) - 1))

\* The pieces on display for an innerHTML.
Pieces(html) == PiecesFrom(Tokens(html, 0), 1, <<>>)

RECURSIVE ConcatText(_, _)
ConcatText(pieces, n) ==
  IF n > Len(pieces) THEN "" ELSE pieces[n].text \o ConcatText(pieces, n + 1)

\* The text on display.
TextOf(pieces) == ConcatText(pieces, 1)

\* The offset of piece n in the text on display.
OffsetOf(pieces, n) == Len(ConcatText(SubSeq(pieces, 1, n - 1), 1))

(***************************************************************************)
(* The inputs of the model.                                                *)
(***************************************************************************)
Vocabulary == {"stop", "calling", "Not", "interested", "never", "call", "back", "Debt", "$5", "me"}

RECURSIVE Sentences(_)
Sentences(n) ==
  IF n = 1 THEN Vocabulary
  ELSE {s \o " " \o w : s \in Sentences(n - 1), w \in Vocabulary}

\* The example transcripts of the specification.
Scenarios ==
  {Str("I owe $5,000 in credit card debt and I'm unemployed now"),
   Str("please stop calling me, I have a lawyer"),
   Str("I lost my job last month")}

\* The transcript prop of a mount.
Transcripts ==
  {Null, Undefined, Str("")} \cup Scenarios
  \cup {Str(s) : s \in UNION {Sentences(n) : n \in 1..MaxWords}}

\* Transcripts with the characters of markup in them.
MarkupVocabulary == {"<b>", "</b>", "<", "a>b", "<i", "Debt"}

RECURSIVE MarkupSentences(_)
MarkupSentences(n) ==
  IF n = 1 THEN MarkupVocabulary
  ELSE {s \o " " \o w : s \in MarkupSentences(n - 1), w \in MarkupVocabulary}

\* A transcript with a span of the className of KEYWORD_PATTERNS.positive in it.
StyledTranscript ==
  Str("<span class=\"bg-green-500/20 text-green-700 dark:text-green-300 px-0.5 rounded\">hi")

MarkupTranscripts ==
  {StyledTranscript} \cup {Str(s) : s \in UNION {MarkupSentences(n) : n \in 1..MaxWords}}

\* The transcript prop of a later render, and of the interleaved runs.
FewTranscripts ==
  {Null, Str(""), Str("stop calling me"), Str("Not interested"), Str("never call back"),
   Str("$5 Debt")}

\* The component instances of the page, and those of the interleaved runs.
PageInstances == {1}
RunInstances == {1, 2}
Instances == PageInstances \cup RunInstances

(***************************************************************************)
(* State.  Per component instance: its props, the useMemo cache, the       *)
(* position in the callback and the callback's locals, and the element     *)
(* returned by the last render.  lastIndex is the lastIndex of every       *)
(* RegExp object: object c in Categories is KEYWORD_PATTERNS[c].pattern,   *)
(* shared by all instances, and object OwnRegExp(i) is the one the         *)
(* callback of instance i allocated last.                                  *)
(***************************************************************************)
VARIABLES
  transcript,             \* props.transcript
  showLegend,             \* props.showLegend
  pc,                     \* "unmounted", "scan", "sort", "splice", "render", "done"
  memoDeps,               \* the deps the memoised value was computed for: <<>> or <<t>>
  highlightedTranscript,  \* the memoised value
  result,                 \* let result
  highlights,             \* const highlights
  category,               \* the entry of KEYWORD_PATTERNS the forEach is at
  regex,                  \* const regex: the RegExp object the loop uses
  cursor,                 \* the entry of highlights the second forEach is at
  rendered,               \* the element returned
  lastIndex,              \* lastIndex of every RegExp object
  interleaved             \* history: a step of another run fell inside this run

viewerVars == <<transcript, showLegend, pc, memoDeps, highlightedTranscript, result, highlights,
                category, regex, cursor, rendered, lastIndex, interleaved>>

(***************************************************************************)
(* The state of CallHistoryPage (app/call-history/page.tsx): the details   *)
(* panel and the list, with the requests that are in flight.               *)
(***************************************************************************)
MaxRequests == 3
MaxPage == 1

\* The calls of the list, by id.
Calls == {1, 2}

VARIABLES
  selectedCall,     \* useState: null, a row of the list, or the details of a call
  callTranscript,   \* useState: null (0) or the transcript of the call of that id
  loadingDetails,   \* useState
  detailsRequests,  \* getCallDetails(call.id) awaited: [n, call]
  detailsIssued,    \* how many details requests were made
  wanted,           \* the call the user selected last, 0 when they closed the panel since
  page,             \* useState
  statusFilter,     \* useState
  calls,            \* useState: the calls on display, as the params they are the answer to
  total,            \* useState: likewise
  isLoading,        \* useState
  listRequests,     \* the runs of fetchData: [n, page, status, state], pending while awaited
  listIssued        \* how many list requests were made

detailsVars == <<selectedCall, callTranscript, loadingDetails, detailsRequests, detailsIssued,
                 wanted>>
listVars == <<page, statusFilter, calls, total, isLoading, listRequests, listIssued>>

\* null, a CallRecord of the list (no transcript field), the details of a call
NoCall == [id |-> 0, from |-> "none", transcript |-> 0]
Row(c) == [id |-> c, from |-> "list", transcript |-> 0]
Details(c, t) == [id |-> c, from |-> "details", transcript |-> t]

\* The list before the first answer ([] and 0), and the answer to params.
NoList == [page |-> -1, status |-> "none"]
Params(p, st) == [page |-> p, status |-> st]
StatusFilters == {"all", "completed", "failed", "in_progress"}

\* Lines 17-36, and the effect of line 40 run once: the first list request.
InitPage ==
  /\ selectedCall = NoCall
  /\ callTranscript = 0
  /\ loadingDetails = FALSE
  /\ detailsRequests = {}
  /\ detailsIssued = 0
  /\ wanted = 0
  /\ page = 0
  /\ statusFilter = "all"
  /\ calls = NoList
  /\ total = NoList
  /\ isLoading = TRUE
  /\ listRequests = {[n |-> 1, page |-> 0, status |-> "all", state |-> "pending"]}
  /\ listIssued = 1

(***************************************************************************)
(* The state of the API client (lib/api.ts).                               *)
(***************************************************************************)
VARIABLES
  authToken,        \* let authToken
  localStorage,     \* localStorage.getItem('auth_token')
  location,         \* window.location.href
  apiCalls,         \* fetch(...) awaited: [n, endpoint]
  outcome,          \* of every apiFetch made: pending, returned or thrown, and its status
  apiIssued         \* how many calls of apiFetch were made

apiVars == <<authToken, localStorage, location, apiCalls, outcome, apiIssued>>

InitApi ==
  /\ authToken = Null
  /\ localStorage = Null
  /\ location = "/"
  /\ apiCalls = {}
  /\ outcome = <<>>
  /\ apiIssued = 0

vars == <<viewerVars, detailsVars, listVars, apiVars>>

OwnRegExp(i) == Len(KEYWORD_PATTERNS) + i
RegExpObjects == Categories \cup {OwnRegExp(i) : i \in Instances}

\* A slip: the loop run on KEYWORD_PATTERNS[type].pattern itself.
SharedRegExp(i, c) == c

\* Line 60: new RegExp(pattern.source, pattern.flags), an object of the run's own.
NewRegExp(i, c) == OwnRegExp(i)

\* Instance i takes a step of its callback: the runs it falls inside.
Interleave(i) ==
  interleaved' = [j \in Instances |->
                    IF j = i THEN interleaved[j]
                    ELSE interleaved[j] \/ pc[j] \in {"scan", "sort", "splice"}]

Init ==
  /\ transcript = [i \in Instances |-> Undefined]
  /\ showLegend = [i \in Instances |-> TRUE]
  /\ pc = [i \in Instances |-> "unmounted"]
  /\ memoDeps = [i \in Instances |-> <<>>]
  /\ highlightedTranscript = [i \in Instances |-> Null]
  /\ result = [i \in Instances |-> ""]
  /\ highlights = [i \in Instances |-> <<>>]
  /\ category = [i \in Instances |-> 0]
  /\ regex = [i \in Instances |-> 0]
  /\ cursor = [i \in Instances |-> 0]
  /\ rendered = [i \in Instances |-> NoElement]
  /\ lastIndex = [o \in RegExpObjects |-> 0]
  /\ interleaved = [i \in Instances |-> FALSE]
  /\ InitPage
  /\ InitApi

\* A slip: useMemo with the dependency array [], the value never computed again.
NoDeps(i, t) == memoDeps[i] # <<>>

\* Line 84: the dependency array [transcript] against that of the memoised value.
SameDeps(i, t) == memoDeps[i] = <<t>>

\* A render with props (t, show): useMemo returns the memoised value when its dep
\* is unchanged, and otherwise runs the callback, lines 52-60 of which are here.
Render(i, t, show) ==
  /\ transcript' = [transcript EXCEPT ![i] = t]
  /\ showLegend' = [showLegend EXCEPT ![i] = show]
  /\ rendered' = [rendered EXCEPT ![i] = NoElement]
  /\ interleaved' = [interleaved EXCEPT ![i] = FALSE]
  /\ IF SameDeps(i, t)
     THEN /\ pc' = [pc EXCEPT ![i] = "render"]
          /\ UNCHANGED <<memoDeps, highlightedTranscript, result, highlights, category,
                         regex, cursor, lastIndex>>
     ELSE IF Falsy(t)
     THEN /\ pc' = [pc EXCEPT ![i] = "render"]
          /\ memoDeps' = [memoDeps EXCEPT ![i] = <<t>>]
          /\ highlightedTranscript' = [highlightedTranscript EXCEPT ![i] = Null]
          /\ result' = [result EXCEPT ![i] = ""]
          /\ highlights' = [highlights EXCEPT ![i] = <<>>]
          /\ category' = [category EXCEPT ![i] = 0]
          /\ regex' = [regex EXCEPT ![i] = 0]
          /\ cursor' = [cursor EXCEPT ![i] = 0]
          /\ UNCHANGED lastIndex
     ELSE /\ pc' = [pc EXCEPT ![i] = "scan"]
          /\ memoDeps' = [memoDeps EXCEPT ![i] = <<>>]
          /\ highlightedTranscript' = [highlightedTranscript EXCEPT ![i] = Null]
          /\ result' = [result EXCEPT ![i] = t.value]
          /\ highlights' = [highlights EXCEPT ![i] = <<>>]
          /\ category' = [category EXCEPT ![i] = 1]
          /\ regex' = [regex EXCEPT ![i] = NewRegExp(i, 1)]
          /\ cursor' = [cursor EXCEPT ![i] = 0]
          /\ lastIndex' = [lastIndex EXCEPT ![NewRegExp(i, 1)] = 0]
  /\ UNCHANGED <<detailsVars, listVars, apiVars>>

\* The component is mounted with its first props.
Mount(i, t, show) ==
  /\ pc[i] = "unmounted"
  /\ Render(i, t, show)

\* The parent renders the component again, with the same or other props.
Rerender(i, t, show) ==
  /\ pc[i] = "done"
  /\ Render(i, t, show)

\* Lines 62-69: one evaluation of the while condition, regex.exec(transcript), and
\* the push that follows a match; on null the forEach goes to the next entry and
\* allocates its RegExp (line 60), or is over.
Exec(i) ==
  /\ pc[i] = "scan"
  /\ LET c == category[i]
     IN \E m \in {RegExpExec(KEYWORD_PATTERNS[c].pattern, transcript[i].value,
                               lastIndex[regex[i]])} :
        IF m.found
        THEN /\ highlights' = [highlights EXCEPT ![i] = Push(@, Highlight(c, m))]
             /\ lastIndex' = [lastIndex EXCEPT ![regex[i]] = m.lastIndex]
             /\ UNCHANGED <<pc, category, regex>>
        ELSE IF c < Len(KEYWORD_PATTERNS)
        THEN /\ category' = [category EXCEPT ![i] = c + 1]
             /\ regex' = [regex EXCEPT ![i] = NewRegExp(i, c + 1)]
             /\ lastIndex' = [lastIndex EXCEPT ![regex[i]] = m.lastIndex,
                                               ![NewRegExp(i, c + 1)] = 0]
             /\ UNCHANGED <<pc, highlights>>
        ELSE /\ pc' = [pc EXCEPT ![i] = "sort"]
             /\ lastIndex' = [lastIndex EXCEPT ![regex[i]] = m.lastIndex]
             /\ UNCHANGED <<category, regex, highlights>>
  /\ Interleave(i)
  /\ UNCHANGED <<transcript, showLegend, memoDeps, highlightedTranscript, result, cursor,
                 rendered>>
  /\ UNCHANGED <<detailsVars, listVars, apiVars>>

\* Line 73.
Sort(i) ==
  /\ pc[i] = "sort"
  /\ highlights' = [highlights EXCEPT ![i] = SortByStartDesc(@)]
  /\ cursor' = [cursor EXCEPT ![i] = 1]
  /\ pc' = [pc EXCEPT ![i] = "splice"]
  /\ Interleave(i)
  /\ UNCHANGED <<transcript, showLegend, memoDeps, highlightedTranscript, result, category,
                 regex, rendered, lastIndex>>
  /\ UNCHANGED <<detailsVars, listVars, apiVars>>

\* Lines 76-81: one iteration of highlights.forEach.
SpliceNext(i) ==
  /\ pc[i] = "splice"
  /\ cursor[i] <= Len(highlights[i])
  /\ result' = [result EXCEPT ![i] = Splice(@, highlights[i][cursor[i]])]
  /\ cursor' = [cursor EXCEPT ![i] = @ + 1]
  /\ Interleave(i)
  /\ UNCHANGED <<transcript, showLegend, pc, memoDeps, highlightedTranscript, highlights,
                 category, regex, rendered, lastIndex>>
  /\ UNCHANGED <<detailsVars, listVars, apiVars>>

\* Line 83: return result; useMemo keeps it with its dep.
Return(i) ==
  /\ pc[i] = "splice"
  /\ cursor[i] > Len(highlights[i])
  /\ highlightedTranscript' = [highlightedTranscript EXCEPT ![i] = Str(result[i])]
  /\ memoDeps' = [memoDeps EXCEPT ![i] = <<transcript[i]>>]
  /\ pc' = [pc EXCEPT ![i] = "render"]
  /\ Interleave(i)
  /\ UNCHANGED <<transcript, showLegend, result, highlights, category, regex, cursor,
                 rendered, lastIndex>>
  /\ UNCHANGED <<detailsVars, listVars, apiVars>>

\* Lines 86-111: the element.
Finish(i) ==
  /\ pc[i] = "render"
  /\ rendered' = [rendered EXCEPT ![i] =
                    Element(transcript[i], showLegend[i], highlightedTranscript[i])]
  /\ pc' = [pc EXCEPT ![i] = "done"]
  /\ UNCHANGED <<transcript, showLegend, memoDeps, highlightedTranscript, result, highlights,
                 category, regex, cursor, lastIndex, interleaved>>
  /\ UNCHANGED <<detailsVars, listVars, apiVars>>

\* The component is unmounted: its memoised value and its element are gone.
Unmount(i) ==
  /\ pc[i] = "done"
  /\ transcript' = [transcript EXCEPT ![i] = Undefined]
  /\ showLegend' = [showLegend EXCEPT ![i] = TRUE]
  /\ pc' = [pc EXCEPT ![i] = "unmounted"]
  /\ memoDeps' = [memoDeps EXCEPT ![i] = <<>>]
  /\ highlightedTranscript' = [highlightedTranscript EXCEPT ![i] = Null]
  /\ result' = [result EXCEPT ![i] = ""]
  /\ highlights' = [highlights EXCEPT ![i] = <<>>]
  /\ category' = [category EXCEPT ![i] = 0]
  /\ regex' = [regex EXCEPT ![i] = 0]
  /\ cursor' = [cursor EXCEPT ![i] = 0]
  /\ rendered' = [rendered EXCEPT ![i] = NoElement]
  /\ interleaved' = [interleaved EXCEPT ![i] = FALSE]
  /\ UNCHANGED lastIndex
  /\ UNCHANGED <<detailsVars, listVars, apiVars>>

\* One step of the callback or of the render of instance i.
Step(i) == Exec(i) \/ Sort(i) \/ SpliceNext(i) \/ Return(i) \/ Finish(i) \/ Unmount(i)

\* One TranscriptViewer on the page: mounted with any transcript of the model,
\* rendered again with the same transcript or one of a few others.
Next ==
  \E i \in PageInstances :
    \/ \E t \in Transcripts, show \in BOOLEAN : Mount(i, t, show)
    \/ \E t \in FewTranscripts \cup {transcript[i]}, show \in BOOLEAN : Rerender(i, t, show)
    \/ Step(i)

Spec == Init /\ [][Next]_vars

\* Several annotation runs over a few transcripts, their steps interleaved.
NextRuns ==
  \E i \in RunInstances :
    \/ \E t \in FewTranscripts : Mount(i, t, TRUE)
    \/ \E t \in FewTranscripts : Rerender(i, t, TRUE)
    \/ Step(i)

SpecRuns == Init /\ [][NextRuns]_vars

\* JavaScript runs a render to completion: once the callback or the render
\* has a step to take, it takes it.
Running(i) == Exec(i) \/ Sort(i) \/ SpliceNext(i) \/ Return(i) \/ Finish(i)

\* One TranscriptViewer over the sentences of the vocabulary, rendered again
\* with the transcript it has.
NextSentences ==
  \E i \in PageInstances :
    \/ \E t \in Transcripts \ Scenarios : Mount(i, t, TRUE)
    \/ \E show \in BOOLEAN : Rerender(i, transcript[i], show)
    \/ Step(i)

SpecFair ==
  Init /\ [][NextSentences]_vars /\ WF_viewerVars(\E i \in PageInstances : Running(i))

\* One TranscriptViewer whose transcripts have the characters of markup in them.
NextMarkup ==
  \E i \in PageInstances :
    \/ \E t \in MarkupTranscripts, show \in BOOLEAN : Mount(i, t, show)
    \/ \E show \in BOOLEAN : Rerender(i, transcript[i], show)
    \/ Step(i)

SpecMarkup == Init /\ [][NextMarkup]_vars

(***************************************************************************)
(* CallHistoryPage: the details panel.                                     *)
(***************************************************************************)
\* Lines 84-90, onClick of a row: handleSelectCall(call) up to its await.
SelectCall(c) ==
  /\ detailsIssued < MaxRequests
  /\ selectedCall' = Row(c)
  /\ loadingDetails' = TRUE
  /\ callTranscript' = 0
  /\ detailsIssued' = detailsIssued + 1
  /\ detailsRequests' = detailsRequests \cup {[n |-> detailsIssued + 1, call |-> c]}
  /\ wanted' = c
  /\ UNCHANGED <<viewerVars, listVars, apiVars>>

\* Lines 90-92 and 96: the promise of request r is fulfilled with the details of
\* its call, t being details.transcript || null.
DetailsResponse(r, t) ==
  /\ r \in detailsRequests
  /\ selectedCall' = Details(r.call, t)
  /\ callTranscript' = t
  /\ loadingDetails' = FALSE
  /\ detailsRequests' = detailsRequests \ {r}
  /\ UNCHANGED <<detailsIssued, wanted, viewerVars, listVars, apiVars>>

\* Lines 93-96: the promise of request r is rejected.
DetailsError(r) ==
  /\ r \in detailsRequests
  /\ loadingDetails' = FALSE
  /\ detailsRequests' = detailsRequests \ {r}
  /\ UNCHANGED <<selectedCall, callTranscript, detailsIssued, wanted, viewerVars, listVars,
                 apiVars>>

\* Line 401, onClick of Close, a button of the panel.
Close ==
  /\ selectedCall # NoCall
  /\ selectedCall' = NoCall
  /\ callTranscript' = 0
  /\ wanted' = 0
  /\ UNCHANGED <<loadingDetails, detailsRequests, detailsIssued, viewerVars, listVars, apiVars>>

\* Line 484: the transcript prop of the TranscriptViewer of the panel.
TranscriptProp == IF callTranscript # 0 THEN callTranscript ELSE selectedCall.transcript

NextDetails ==
  \/ \E c \in Calls : SelectCall(c)
  \/ \E r \in detailsRequests : \E t \in {0, r.call} : DetailsResponse(r, t)
  \/ \E r \in detailsRequests : DetailsError(r)
  \/ Close

SpecDetails == Init /\ [][NextDetails]_vars
(***************************************************************************)
(* Properties.                                                             *)
(***************************************************************************)
Done(i) == pc[i] = "done"

\* A transcript that is null, undefined or the empty string.
Empty(t) == t \in {Null, Undefined, Str("")}

\* The render of instance i is over and annotated a non-empty transcript.
Annotated(i) == Done(i) /\ ~Empty(transcript[i])

\* The pieces on display in instance i.
Shown(i) == Pieces(rendered[i].html)

ClassNameOf(type) == KEYWORD_PATTERNS[CategoryOf(type)].className

\* The source ranges of two highlights intersect.
Overlap(a, b) == a.start < b.end /\ b.start < a.end

\* The span h put around text[start, end) is on display as such, at its place.
ShownAt(i, h) ==
  \E n \in DOMAIN Shown(i) :
    /\ Shown(i)[n].kind = "highlighted"
    /\ Shown(i)[n].className = ClassNameOf(h.type)
    /\ Shown(i)[n].text = Slice(transcript[i].value, h.start, h.end)
    /\ OffsetOf(Shown(i), n) = h.start

\* Something of the wrapper of h is on display as text.
Remnant(i, h) ==
  \E n \in DOMAIN Shown(i) :
    /\ Shown(i)[n].kind = "plain"
    /\ IndexOf(Shown(i)[n].text, ClassNameOf(h.type), 0) # -1

\* C1 (Reconstruction): the pieces on display for a non-empty transcript, in
\* order and without the span wrappers, concatenate to the transcript.
C1_Reconstruction ==
  \A i \in Instances : Annotated(i) => TextOf(Shown(i)) = transcript[i].value

\* C2 (Non-overlap): the source ranges [start, end) of any two highlights the
\* callback applied to the transcript do not intersect.
C2_NonOverlap ==
  \A i \in Instances :
    Annotated(i) =>
      \A a, b \in DOMAIN highlights[i] :
        a # b => ~Overlap(highlights[i][a], highlights[i][b])

\* C3 (Precedence): of two overlapping matches of different categories, the one
\* of the category earlier in KEYWORD_PATTERNS is on display as a highlight and
\* the other is not on display at all, neither as a highlight nor in part.
C3_Precedence ==
  \A i \in Instances :
    Annotated(i) =>
      \A a, b \in DOMAIN highlights[i] :
        LET first == highlights[i][a]
            second == highlights[i][b]
        IN Overlap(first, second) /\ CategoryOf(first.type) < CategoryOf(second.type)
           => ShownAt(i, first) /\ ~ShownAt(i, second) /\ ~Remnant(i, second)

\* C4 (Empty input): for a null, undefined or empty transcript no category is
\* scanned, no highlight is collected, the memoised value is null, and the
\* element is the "No transcript available" one with no legend, showLegend or not.
C4_EmptyInput ==
  \A i \in Instances :
    pc[i] # "unmounted" /\ Empty(transcript[i]) =>
      /\ pc[i] \in {"render", "done"}
      /\ category[i] = 0 /\ regex[i] = 0 /\ highlights[i] = <<>>
      /\ highlightedTranscript[i] = Null
      /\ Done(i) => /\ rendered[i].kind = "empty"
                    /\ rendered[i].text = "No transcript available"
                    /\ rendered[i].legend = <<>>
                    /\ rendered[i].html = ""

C4_Witness ==
  /\ Done(1) /\ transcript[1] = Str("") /\ showLegend[1]
  /\ rendered[1].kind = "empty" /\ rendered[1].legend = <<>>

\* C5 (Determinism): two finished renders of the same transcript show the same
\* annotation, and the same element when showLegend is the same, whatever was
\* rendered before them.
C5_Determinism ==
  \A i, j \in Instances :
    Done(i) /\ Done(j) /\ transcript[i] = transcript[j] =>
      /\ highlightedTranscript[i] = highlightedTranscript[j]
      /\ rendered[i].html = rendered[j].html
      /\ showLegend[i] = showLegend[j] => rendered[i] = rendered[j]

C5_Witness ==
  /\ Done(1) /\ Done(2)
  /\ transcript[1] = Str("stop calling me") /\ transcript[2] = transcript[1]
  /\ Len(highlights[1]) = 2 /\ rendered[1].html = rendered[2].html

\* C6 (Order): the pieces on display are non-empty and each is the text of the
\* transcript from where the previous one ended, the first from offset 0 and
\* the last to the end of the transcript.
C6_Order ==
  \A i \in Instances :
    Annotated(i) =>
      /\ \A n \in DOMAIN Shown(i) :
           /\ Shown(i)[n].text # ""
           /\ Shown(i)[n].text =
                Slice(transcript[i].value, OffsetOf(Shown(i), n),
                      OffsetOf(Shown(i), n) + Len(Shown(i)[n].text))
      /\ OffsetOf(Shown(i), Len(Shown(i)) + 1) = Len(transcript[i].value)

\* The categories of the highlights on display, each once, by first appearance.
RECURSIVE FirstAppearance(_, _, _)
FirstAppearance(pieces, n, seen) ==
  IF n > Len(pieces) THEN <<>>
  ELSE LET of == {c \in Categories : KEYWORD_PATTERNS[c].className = pieces[n].className}
       IN IF pieces[n].kind # "highlighted" \/ of = {} \/ of \subseteq seen
          THEN FirstAppearance(pieces, n + 1, seen)
          ELSE <<KEYWORD_PATTERNS[CHOOSE c \in of : TRUE].type>>
               \o FirstAppearance(pieces, n + 1, seen \cup of)

LegendKeys(legend) == [n \in DOMAIN legend |-> legend[n].key]

\* C7 as claimed (Default legend): without showLegend the legend lists exactly
\* the categories that have a highlight on display, by first appearance.
C7_LegendOfMatched ==
  \A i \in Instances :
    Annotated(i) /\ ~showLegend[i] =>
      LegendKeys(rendered[i].legend) = FirstAppearance(Shown(i), 1, {})

\* C7 as amended: without showLegend the legend is empty, whatever matched.
C7_NoLegend ==
  \A i \in Instances : Annotated(i) /\ ~showLegend[i] => rendered[i].legend = <<>>

C7_Witness ==
  /\ Annotated(1) /\ ~showLegend[1]
  /\ transcript[1] = Str("Debt") /\ highlights[1] # <<>>
  /\ FirstAppearance(Shown(1), 1, {}) = <<"debt">>
  /\ rendered[1].legend = <<>>

\* C8 (Full legend): with showLegend and a non-empty transcript the legend has
\* one entry per entry of KEYWORD_PATTERNS, in that order, with its key, its
\* label and its className, whatever matched.
C8_FullLegend ==
  \A i \in Instances :
    Annotated(i) /\ showLegend[i] =>
      /\ Len(rendered[i].legend) = Len(KEYWORD_PATTERNS)
      /\ \A c \in Categories :
           /\ rendered[i].legend[c].key = KEYWORD_PATTERNS[c].type
           /\ rendered[i].legend[c].label = KEYWORD_PATTERNS[c].label
           /\ StartsWithAt(rendered[i].legend[c].className, KEYWORD_PATTERNS[c].className, 0)
      /\ \A c, d \in Categories : c # d => rendered[i].legend[c].key # rendered[i].legend[d].key

C8_Witness ==
  /\ Annotated(1) /\ showLegend[1]
  /\ transcript[1] = Str("me") /\ highlights[1] = <<>>
  /\ Len(rendered[1].legend) = Len(KEYWORD_PATTERNS)

\* C9 (Concurrent use of one registry): the RegExp objects of KEYWORD_PATTERNS
\* keep lastIndex 0, and every run, its steps interleaved with those of other
\* runs or not, ends with the value the callback has for its transcript alone.
C9_SharedRegistry ==
  /\ \A c \in Categories : lastIndex[c] = 0
  /\ \A i \in Instances :
       /\ pc[i] \in {"render", "done"} =>
            highlightedTranscript[i] = HighlightedTranscript(transcript[i])
       /\ Done(i) =>
            rendered[i] = Element(transcript[i], showLegend[i],
                                  HighlightedTranscript(transcript[i]))

C9_Witness ==
  /\ Done(1) /\ interleaved[1]
  /\ transcript[1] = Str("stop calling me") /\ transcript[2] = Str("Not interested")
  /\ pc[2] = "splice"
  /\ highlightedTranscript[1] = HighlightedTranscript(transcript[1])

\* C10 (Overlap handling keeps indices): every highlight the callback applied
\* is on display as a span around exactly text[start, end) at offset start, and
\* the text on display has the length of the transcript.
C10_IndicesKept ==
  \A i \in Instances :
    Annotated(i) =>
      /\ \A n \in DOMAIN highlights[i] : ShownAt(i, highlights[i][n])
      /\ Len(TextOf(Shown(i))) = Len(transcript[i].value)
\* The tags among the tokens of an innerHTML.
TagsOf(html) ==
  LET tokens == Tokens(html, 0)
  IN {tokens[n].s : n \in {m \in DOMAIN tokens : tokens[m].tok = "tag"}}

\* C11 (Plain text is rendered literally): the only tags in what is on display
\* are the span wrappers of the highlights the callback applied, and the text
\* on display is the transcript, character for character.
C11_LiteralText ==
  \A i \in Instances :
    Annotated(i) =>
      /\ TagsOf(rendered[i].html) \subseteq
           {SpanClose} \cup {SpanOpen(ClassNameOf(highlights[i][n].type)) : n \in DOMAIN highlights[i]}
      /\ TextOf(Shown(i)) = transcript[i].value

\* A piece on display that highlights text with the className of a category.
ShownAs(i, type, text) ==
  \E n \in DOMAIN Shown(i) :
    /\ Shown(i)[n].kind = "highlighted"
    /\ Shown(i)[n].className = ClassNameOf(type)
    /\ Shown(i)[n].text = text

\* C13 (Scenario 'stop calling'): for "please stop calling me, I have a lawyer"
\* the display has a dnc highlight over "stop calling" and another over
\* "lawyer", and no two of the highlights applied to the transcript overlap.
C13_StopCalling ==
  \A i \in Instances :
    Done(i) /\ transcript[i] = Str("please stop calling me, I have a lawyer") =>
      /\ ShownAs(i, "dnc", "stop calling")
      /\ ShownAs(i, "dnc", "lawyer")
      /\ \A a, b \in DOMAIN highlights[i] :
           a < b => ~Overlap(highlights[i][a], highlights[i][b])

\* The keywords of a category other than money, as its pattern lists them.
KeywordsOf(c) ==
  LET alts == KEYWORD_PATTERNS[c].pattern.sub[2].sub
  IN {alts[n].s : n \in DOMAIN alts}

\* C14 (Literal matcher semantics): for "I lost my job last month" there is one
\* highlight, of income over "job" at [10, 13), and it is the one highlighted
\* piece on display: the hardship keyword "lost job" does not match "lost my
\* job".  Every highlight of a keyword category is, letter case aside, one of
\* the keywords of the category character for character.
C14_LiteralKeywords ==
  \A i \in Instances :
    Annotated(i) =>
      /\ transcript[i] = Str("I lost my job last month") =>
           /\ highlights[i] = <<[start |-> 10, end |-> 13, type |-> "income", text |-> "job"]>>
           /\ \A n \in DOMAIN Shown(i) :
                Shown(i)[n].kind = "highlighted" =>
                  /\ Shown(i)[n].text = "job"
                  /\ Shown(i)[n].className = ClassNameOf("income")
                  /\ OffsetOf(Shown(i), n) = 10
           /\ TextOf(Shown(i)) = "I lost my job last month"
      /\ \A n \in DOMAIN highlights[i] :
           highlights[i][n].type # "money" =>
             Canonicalize(highlights[i][n].text) \in KeywordsOf(CategoryOf(highlights[i][n].type))

C14_Witness ==
  /\ Done(1)
  /\ transcript[1] = Str("I lost my job last month")
  /\ ShownAs(1, "income", "job")
  /\ Len(highlights[1]) = 1

\* The highlights of category c collected by instance i.
HighlightsOf(i, c) ==
  {n \in DOMAIN highlights[i] : highlights[i][n].type = KEYWORD_PATTERNS[c].type}

\* While category c is scanned, the search resumes at the end of the match
\* collected last, which is not empty.
ScanProgress(i) ==
  pc[i] = "scan" /\ HighlightsOf(i, category[i]) # {} =>
    LET last == highlights[i][Len(highlights[i])]
    IN /\ last.type = KEYWORD_PATTERNS[category[i]].type
       /\ last.start < last.end
       /\ lastIndex[regex[i]] = last.end
       /\ \A n \in HighlightsOf(i, category[i]) : highlights[i][n].end <= last.end

\* C15 (Totality and termination): a run that has started to scan gets to its
\* element; during the scan of a category every match is non-empty and the
\* search resumes at the end of the previous match; the matches of a category
\* are at most as many as the characters of the transcript.
C15_Termination ==
  /\ [](\A i \in Instances :
          /\ ScanProgress(i)
          /\ \A c \in Categories : Cardinality(HighlightsOf(i, c)) <= Len(transcript[i].value))
  /\ \A i \in Instances : (pc[i] = "scan") ~> Done(i)

C15_Witness ==
  /\ Done(1)
  /\ \E c \in Categories : Cardinality(HighlightsOf(1, c)) >= 2
  /\ rendered[1].kind = "viewer"

\* The highlights of category c in hs, in their order.
OfCategory(hs, c) ==
  LET Test(h) == h.type = KEYWORD_PATTERNS[c].type
  IN SelectSeq(hs, Test)

\* C16 (Per-category scan): when the scan is over, the matches of a category
\* are the occurrences of its pattern, letter case aside, found by taking the
\* leftmost one at or after the end of the previous one until there is none:
\* they do not overlap, their starts increase strictly, and they are what the
\* scan of the category on its own finds.
C16_PerCategoryScan ==
  \A i \in Instances :
    pc[i] = "sort" =>
      \A c \in Categories :
        LET found == OfCategory(highlights[i], c)
            re == KEYWORD_PATTERNS[c].pattern
            text == Canonicalize(transcript[i].value)
            MatchAt(n) == Ends(re, text, n) # <<>>
            From(k) == IF k = 1 THEN 0 ELSE found[k - 1].end
        IN /\ \A k \in DOMAIN found :
                /\ From(k) <= found[k].start
                /\ \A n \in From(k)..(found[k].start - 1) : ~MatchAt(n)
                /\ MatchAt(found[k].start)
                /\ found[k].end = Head(Ends(re, text, found[k].start))
           /\ \A n \in From(Len(found) + 1)..Len(text) : ~MatchAt(n)
           /\ \A j, k \in DOMAIN found :
                j < k => found[j].end <= found[k].start /\ found[j].start < found[k].start
           /\ found = ScanCategory(c, transcript[i].value, 0)

C16_Witness ==
  /\ pc[1] = "sort"
  /\ \E c \in Categories :
       /\ Len(OfCategory(highlights[1], c)) >= 2
       /\ \E n \in DOMAIN highlights[1] : highlights[1][n].text # Canonicalize(highlights[1][n].text)

\* C17 (Raw match well-formedness): every highlight the scan has recorded has
\* 0 <= start < end <= the length of the transcript, and its text is the
\* characters [start, end) of the transcript as they are written there.
C17_WellFormed ==
  \A i \in Instances :
    \A n \in DOMAIN highlights[i] :
      LET h == highlights[i][n]
          str == transcript[i].value
      IN /\ 0 <= h.start
         /\ h.start < h.end
         /\ h.end <= Len(str)
         /\ h.text = SubSeq(str, h.start + 1, h.end)

C17_Witness ==
  /\ pc[1] = "scan"
  /\ \E n \in DOMAIN highlights[1] :
       /\ highlights[1][n].start > 0
       /\ highlights[1][n].text # Canonicalize(highlights[1][n].text)

\* C18 (Scan output order): when the scan is over, the highlights are in the
\* order of the categories in KEYWORD_PATTERNS and, within a category, in
\* ascending order of start; the list is a function of the transcript alone,
\* the same for every run over it.
C18_ScanOrder ==
  \A i \in Instances :
    pc[i] = "sort" =>
      /\ \A a, b \in DOMAIN highlights[i] :
           a < b =>
             LET first == highlights[i][a]
                 second == highlights[i][b]
             IN \/ CategoryOf(first.type) < CategoryOf(second.type)
                \/ first.type = second.type /\ first.start < second.start
      /\ highlights[i] = ScanFrom(1, transcript[i].value)

C18_Witness ==
  /\ pc[1] = "sort"
  /\ \E a, b \in DOMAIN highlights[1] :
       a < b /\ highlights[1][a].type = highlights[1][b].type
  /\ \E a, b \in DOMAIN highlights[1] :
       /\ a < b
       /\ highlights[1][a].type # highlights[1][b].type
       /\ highlights[1][a].start > highlights[1][b].start

\* The highlights of instance i are sorted and none is applied yet.
Sorted(i) == pc[i] = "splice" /\ cursor[i] = 1

\* C19 (Resolution order), as claimed: the sorted highlights are in ascending
\* order of start, those of equal start in the order of their categories in
\* KEYWORD_PATTERNS, those of equal start and category longest first.
C19_AscendingStart ==
  \A i \in Instances :
    Sorted(i) =>
      \A a, b \in DOMAIN highlights[i] :
        a < b =>
          LET first == highlights[i][a]
              second == highlights[i][b]
          IN \/ first.start < second.start
             \/ /\ first.start = second.start
                /\ CategoryOf(first.type) < CategoryOf(second.type)
             \/ /\ first.start = second.start
                /\ first.type = second.type
                /\ first.end - first.start >= second.end - second.start

\* C19 (Resolution order), as the code has it: the sorted highlights are the
\* highlights of the scan in descending order of start, those of equal start
\* in the order of their categories in KEYWORD_PATTERNS; no two have the
\* same start and category.
C19_DescendingStart ==
  \A i \in Instances :
    Sorted(i) =>
      /\ \A a, b \in DOMAIN highlights[i] :
           a < b =>
             LET first == highlights[i][a]
                 second == highlights[i][b]
             IN \/ first.start > second.start
                \/ /\ first.start = second.start
                   /\ CategoryOf(first.type) < CategoryOf(second.type)
      /\ Len(highlights[i]) = Len(ScanFrom(1, transcript[i].value))
      /\ \A n \in DOMAIN highlights[i] :
           \E m \in DOMAIN highlights[i] : ScanFrom(1, transcript[i].value)[m] = highlights[i][n]

C19_Witness ==
  /\ Sorted(1)
  /\ \E a, b \in DOMAIN highlights[1] :
       a < b /\ highlights[1][a].start > highlights[1][b].start
  /\ \E a, b \in DOMAIN highlights[1] :
       a < b /\ highlights[1][a].start = highlights[1][b].start

\* The candidates[n..] a sweep accepts whose frontier is at the given offset: a
\* candidate is accepted when it starts at or after the frontier, which then
\* moves to its end.
RECURSIVE Sweep(_, _, _)
Sweep(candidates, n, frontier) ==
  IF n > Len(candidates) THEN <<>>
  ELSE IF candidates[n].start >= frontier
  THEN <<candidates[n]>> \o Sweep(candidates, n + 1, candidates[n].end)
  ELSE Sweep(candidates, n + 1, frontier)

\* C20 (Greedy sweep): the highlights applied to the transcript are those a
\* sweep over the matches of the scan accepts, taken in ascending order of start
\* with the frontier at 0 first, and the innerHTML is the transcript with the
\* accepted ones wrapped: a match the sweep discards has no effect on it.
C20_GreedySweep ==
  \A i \in Instances :
    Annotated(i) =>
      LET accepted == Sweep(SortByStartAsc(ScanFrom(1, transcript[i].value)), 1, 0)
      IN /\ {highlights[i][n] : n \in DOMAIN highlights[i]} = {accepted[n] : n \in DOMAIN accepted}
         /\ rendered[i].html = SpliceAll(transcript[i].value, SortByStartDesc(accepted), 1)

\* No two highlights of instance i overlap.
Disjoint(i) ==
  \A a, b \in DOMAIN highlights[i] : a < b => ~Overlap(highlights[i][a], highlights[i][b])

Reverse(hs) == [n \in 1..Len(hs) |-> hs[Len(hs) + 1 - n]]

\* str from offset from on, each of the highlights hs, which are in ascending
\* order and do not overlap, wrapped around its characters of str.
RECURSIVE Wrapped(_, _, _)
Wrapped(str, hs, from) ==
  IF hs = <<>> THEN SliceFrom(str, from)
  ELSE Slice(str, from, hs[1].start)
       \o SpanOpen(ClassNameOf(hs[1].type)) \o Slice(str, hs[1].start, hs[1].end) \o SpanClose
       \o Wrapped(str, Tail(hs), hs[1].end)

\* C22 (Back-to-front splicing without overlaps): when no two highlights
\* overlap, then during the splices result agrees with the transcript up to the
\* end of every highlight still to be applied, so that its offsets are those of
\* its text in result; and the value of the callback is the transcript with
\* every highlight wrapped once around its characters [start, end), the
\* characters outside the highlights as they were and where they were.
C22_BackToFront ==
  \A i \in Instances :
    Disjoint(i) =>
      /\ pc[i] = "splice" =>
           \A n \in cursor[i]..Len(highlights[i]) :
             LET h == highlights[i][n]
             IN /\ Slice(result[i], 0, h.end) = Slice(transcript[i].value, 0, h.end)
                /\ Slice(result[i], h.start, h.end) = h.text
      /\ Annotated(i) =>
           rendered[i].html = Wrapped(transcript[i].value, Reverse(highlights[i]), 0)

C22_Witness ==
  /\ Annotated(1)
  /\ Disjoint(1)
  /\ Len(highlights[1]) >= 3
  /\ rendered[1].html # transcript[1].value

MinStart(hs) == CHOOSE s \in {hs[n].start : n \in DOMAIN hs} : \A m \in DOMAIN hs : s <= hs[m].start
MaxEnd(hs) == CHOOSE e \in {hs[n].end : n \in DOMAIN hs} : \A m \in DOMAIN hs : hs[m].end <= e

\* The highlighted pieces on display in instance i.
HighlightedPieces(i) == {n \in DOMAIN Shown(i) : Shown(i)[n].kind = "highlighted"}

\* C23 (Segment emission): no piece on display is empty; two plain pieces are
\* never next to each other, and a plain piece lies between two highlighted
\* pieces exactly when the text on display has characters between them; the first
\* piece is plain exactly when no highlight starts at 0 and the last piece is
\* plain exactly when no highlight ends at the end of the transcript; a
\* transcript without a match is on display as one plain piece.
C23_SegmentEmission ==
  \A i \in Instances :
    Annotated(i) =>
      LET pieces == Shown(i)
          hs == highlights[i]
          str == transcript[i].value
      IN /\ \A n \in DOMAIN pieces : pieces[n].text # ""
         /\ \A n \in 1..(Len(pieces) - 1) :
              ~(pieces[n].kind = "plain" /\ pieces[n + 1].kind = "plain")
         /\ hs = <<>> => pieces = <<[kind |-> "plain", text |-> str, className |-> "", depth |-> 0]>>
         /\ hs # <<>> =>
              /\ pieces # <<>>
              /\ pieces[1].kind = "plain" <=> MinStart(hs) > 0
              /\ pieces[Len(pieces)].kind = "plain" <=> MaxEnd(hs) < Len(str)

\* C24 (Style pass-through): every highlighted piece on display has the
\* className of a category of KEYWORD_PATTERNS as it is written there, and a
\* match of that category was found whose text is the text of the piece, the
\* characters [start, end) of the transcript.
C24_StylePassThrough ==
  \A i \in Instances :
    Annotated(i) =>
      \A n \in HighlightedPieces(i) :
        \E m \in DOMAIN highlights[i] :
          LET h == highlights[i][m]
          IN /\ Shown(i)[n].className = KEYWORD_PATTERNS[CategoryOf(h.type)].className
             /\ Shown(i)[n].text = h.text
             /\ Shown(i)[n].text = Slice(transcript[i].value, h.start, h.end)

\* The request made last is in flight.
LatestInFlight == \E r \in detailsRequests : r.n = detailsIssued

\* C25 (Latest selection wins): when a call is selected and no details request
\* is in flight, the panel shows that call, and the transcript it shows, if any,
\* is that call's; while the request of the selected call is in flight, the
\* panel says it is loading.
C25_LatestSelectionWins ==
  /\ wanted # 0 /\ detailsRequests = {} =>
       /\ selectedCall.id = wanted
       /\ TranscriptProp \in {0, wanted}
  /\ wanted # 0 /\ LatestInFlight => loadingDetails

\* C26 (Close is final): after Close and until a call is selected again, the
\* panel is closed and callTranscript is null.
C26_CloseIsFinal ==
  wanted = 0 => selectedCall = NoCall /\ callTranscript = 0

(***************************************************************************)
(* The list of CallHistoryPage: the effect of lines 40-81 runs fetchData   *)
(* whenever the page or a filter changed; nothing cancels an earlier run.  *)
(***************************************************************************)
ListInFlight == {r \in listRequests : r.state = "pending"}

\* Lines 43-58: a run of fetchData up to its await, for the page and filter given.
FetchData(p, st) ==
  /\ isLoading' = TRUE
  /\ listIssued' = listIssued + 1
  /\ listRequests' = listRequests \cup
       {[n |-> listIssued + 1, page |-> p, status |-> st, state |-> "pending"]}

\* Line 375: the Next button, rendered when the list is (line 291).
NextPage ==
  /\ ~isLoading
  /\ calls # NoList
  /\ page < MaxPage
  /\ listIssued < MaxRequests
  /\ page' = page + 1
  /\ FetchData(page + 1, statusFilter)
  /\ UNCHANGED <<statusFilter, calls, total, viewerVars, detailsVars, apiVars>>

\* Line 367: the Previous button, disabled on page 0.
PreviousPage ==
  /\ ~isLoading
  /\ page # 0
  /\ listIssued < MaxRequests
  /\ page' = (IF page - 1 > 0 THEN page - 1 ELSE 0)
  /\ FetchData(page', statusFilter)
  /\ UNCHANGED <<statusFilter, calls, total, viewerVars, detailsVars, apiVars>>

\* Line 200: the status filter, whose onChange also goes back to page 0.
SetStatusFilter(st) ==
  /\ st # statusFilter
  /\ listIssued < MaxRequests
  /\ statusFilter' = st
  /\ page' = 0
  /\ FetchData(0, st)
  /\ UNCHANGED <<calls, total, viewerVars, detailsVars, apiVars>>

\* Lines 60-71 and 76: the await of a run is fulfilled.
ListResponse(r) ==
  /\ r \in ListInFlight
  /\ calls' = Params(r.page, r.status)
  /\ total' = Params(r.page, r.status)
  /\ isLoading' = FALSE
  /\ listRequests' = (listRequests \ {r}) \cup {[r EXCEPT !.state = "fulfilled"]}
  /\ UNCHANGED <<page, statusFilter, listIssued, viewerVars, detailsVars, apiVars>>

\* Lines 73-76: the await of a run is rejected.
ListError(r) ==
  /\ r \in ListInFlight
  /\ isLoading' = FALSE
  /\ listRequests' = (listRequests \ {r}) \cup {[r EXCEPT !.state = "rejected"]}
  /\ UNCHANGED <<page, statusFilter, calls, total, listIssued, viewerVars, detailsVars,
                 apiVars>>

NextList ==
  \/ NextPage
  \/ PreviousPage
  \/ \E st \in StatusFilters : SetStatusFilter(st)
  \/ \E r \in listRequests : ListResponse(r)
  \/ \E r \in listRequests : ListError(r)

SpecList == Init /\ [][NextList]_vars

\* C27: once every list request has been answered, the calls and the total on
\* display are the answer to the request for the current page and status filter;
\* and the loading flag is false only when no list request is in flight.
C27_ListMatchesFilters ==
  /\ (\A r \in listRequests : r.state = "fulfilled") =>
       /\ calls = Params(page, statusFilter)
       /\ total = Params(page, statusFilter)
  /\ ~isLoading => ListInFlight = {}

(***************************************************************************)
(* The API client (lib/api.ts): the token store of lines 14-30, apiFetch   *)
(* of lines 33-66, login and logout of lines 87-103.                       *)
(***************************************************************************)
\* AuthTokens a caller or a login response can give: string, the empty one included.
AuthTokens == {Str(""), Str("t1"), Str("t2")}
Statuses == {200, 401, 500}
Endpoints == {"/auth/login", "/auth/me"}

\* response.ok
Ok(status) == status >= 200 /\ status <= 299

\* Never writes the token.
RemoveItem(token) == Null

\* Lines 18-22: what 'auth_token' holds after setAuthToken(token).
SetItemOrRemove(token) == IF ~Falsy(token) THEN token ELSE Null

\* Every error status.
NotOk(status) == ~Ok(status)

\* Line 50: response.status === 401
Unauthorized(status) == status = 401

\* Lines 25-30: what getAuthToken returns, and leaves in memory.
GetAuthTokenValue(token, stored) == IF Falsy(token) THEN stored ELSE token

\* Lines 16-23
SetAuthToken(token) ==
  /\ authToken' = token
  /\ localStorage' = SetItemOrRemove(token)
  /\ UNCHANGED <<location, apiCalls, outcome, apiIssued, viewerVars, detailsVars, listVars>>

\* Lines 25-30
GetAuthToken ==
  /\ authToken' = GetAuthTokenValue(authToken, localStorage)
  /\ UNCHANGED <<localStorage, location, apiCalls, outcome, apiIssued, viewerVars,
                 detailsVars, listVars>>

\* Lines 33-52: apiFetch up to the await of fetch; login (line 88) when the
\* endpoint is /auth/login.
ApiFetch(endpoint) ==
  /\ apiIssued < MaxRequests
  /\ authToken' = GetAuthTokenValue(authToken, localStorage)
  /\ apiIssued' = apiIssued + 1
  /\ apiCalls' = apiCalls \cup {[n |-> apiIssued + 1, endpoint |-> endpoint]}
  /\ outcome' = Append(outcome, [endpoint |-> endpoint, state |-> "pending", status |-> 0])
  /\ UNCHANGED <<localStorage, location, viewerVars, detailsVars, listVars>>

\* Lines 54-65 and 93-94: the response arrives; token is response.token of a login.
ApiResponse(r, status, token) ==
  /\ r \in apiCalls
  /\ apiCalls' = apiCalls \ {r}
  /\ IF ~Ok(status)
       THEN /\ IF Unauthorized(status)
                 THEN /\ authToken' = Null
                      /\ localStorage' = SetItemOrRemove(Null)
                      /\ location' = "/login"
                 ELSE UNCHANGED <<authToken, localStorage, location>>
            /\ outcome' = [outcome EXCEPT ![r.n] = [@ EXCEPT !.state = "thrown",
                                                            !.status = status]]
       ELSE /\ IF r.endpoint = "/auth/login"
                 THEN /\ authToken' = token
                      /\ localStorage' = SetItemOrRemove(token)
                 ELSE UNCHANGED <<authToken, localStorage>>
            /\ UNCHANGED location
            /\ outcome' = [outcome EXCEPT ![r.n] = [@ EXCEPT !.state = "returned",
                                                            !.status = status]]
  /\ UNCHANGED <<apiIssued, viewerVars, detailsVars, listVars>>

\* Line 45: fetch rejects (no response).
FetchRejected(r) ==
  /\ r \in apiCalls
  /\ apiCalls' = apiCalls \ {r}
  /\ outcome' = [outcome EXCEPT ![r.n] = [@ EXCEPT !.state = "thrown"]]
  /\ UNCHANGED <<authToken, localStorage, location, apiIssued, viewerVars, detailsVars,
                 listVars>>

\* Lines 101-103: setAuthToken(null)
Logout ==
  /\ authToken' = Null
  /\ localStorage' = SetItemOrRemove(Null)
  /\ UNCHANGED <<location, apiCalls, outcome, apiIssued, viewerVars, detailsVars, listVars>>

\* Line 14 evaluated again: the page is loaded anew, localStorage stays.
Reload ==
  /\ authToken # Null \/ apiCalls # {}
  /\ authToken' = Null
  /\ apiCalls' = {}
  /\ UNCHANGED <<localStorage, location, outcome, apiIssued, viewerVars, detailsVars,
                 listVars>>

NextApi ==
  \/ \E token \in AuthTokens : SetAuthToken(token)
  \/ GetAuthToken
  \/ \E endpoint \in Endpoints : ApiFetch(endpoint)
  \/ \E r \in apiCalls : \E status \in Statuses : \E token \in AuthTokens :
       ApiResponse(r, status, token)
  \/ \E r \in apiCalls : FetchRejected(r)
  \/ Logout
  \/ Reload

SpecApi == Init /\ [][NextApi]_vars

\* What getAuthToken would return now.
Returned == GetAuthTokenValue(authToken, localStorage)

\* A step that sets a token that counts as one: setAuthToken with a non-empty
\* string, by a caller or by login after its response.
StoresToken ==
  \/ \E token \in AuthTokens : ~Falsy(token) /\ SetAuthToken(token)
  \/ \E r \in apiCalls : \E status \in Statuses : \E token \in AuthTokens :
       /\ r.endpoint = "/auth/login"
       /\ Ok(status)
       /\ ~Falsy(token)
       /\ ApiResponse(r, status, token)

\* C28 as stated: whenever the token in memory is not null, it is the value stored
\* under 'auth_token'.
C28_NonNullIsStored == authToken # Null => authToken = localStorage

\* C28: whenever the token in memory is a non-empty string it is the value stored
\* under 'auth_token', and the stored value is never empty; logout and
\* setAuthToken(null) leave both absent; and from a state where getAuthToken
\* returns null it goes on returning null until a non-empty token is set, by
\* setAuthToken or by a successful login.
C28_TokenStore ==
  /\ [](/\ ~Falsy(authToken) => authToken = localStorage
        /\ localStorage = Null \/ ~Falsy(localStorage))
  /\ [][Logout \/ SetAuthToken(Null) =>
          authToken' = Null /\ localStorage' = Null /\ Returned' = Null]_vars
  /\ [][Returned = Null /\ Returned' # Null => StoresToken]_vars

\* A login returned and its token is in memory and in storage; another call saw
\* the token taken away by a 401.
C28_Witness ==
  /\ ~Falsy(authToken)
  /\ authToken = localStorage
  /\ \E n \in DOMAIN outcome :
       outcome[n].endpoint = "/auth/login" /\ outcome[n].state = "returned"
  /\ \E n \in DOMAIN outcome : outcome[n].state = "thrown" /\ outcome[n].status = 401

\* The call n of apiFetch ends in this step.
CallEnds(n) == outcome[n].state = "pending" /\ outcome'[n].state # "pending"

\* C29: a call whose response is not OK ends thrown and none returns data on such
\* a response; the step that ends a call on a 401 leaves memory and localStorage
\* without a token and the location at /login; the step that ends a call on another
\* error leaves both as they were; a step that ends a call and changes the stored
\* token otherwise ends a login with an OK response; and the step that starts a
\* call stores nothing.
C29_ErrorOutcomes ==
  /\ [](\A n \in DOMAIN outcome :
          /\ outcome[n].state = "returned" => Ok(outcome[n].status)
          /\ outcome[n].state # "pending" /\ ~Ok(outcome[n].status) =>
               outcome[n].state = "thrown")
  /\ [][\A n \in DOMAIN outcome : CallEnds(n) =>
          IF outcome'[n].status = 401
            THEN authToken' = Null /\ localStorage' = Null /\ location' = "/login"
            ELSE IF ~Ok(outcome'[n].status)
              THEN UNCHANGED <<authToken, localStorage, location>>
              ELSE \/ UNCHANGED <<authToken, localStorage>>
                   \/ outcome[n].endpoint = "/auth/login"]_vars
  /\ [][Len(outcome') > Len(outcome) => UNCHANGED localStorage]_vars

\* With a token stored, one call was thrown on a 401 and took it away, a login
\* returned and stored one, and a call thrown on a 500 is there with the token kept.
C29_Witness ==
  /\ ~Falsy(authToken)
  /\ authToken = localStorage
  /\ location = "/login"
  /\ \E n \in DOMAIN outcome : outcome[n].state = "thrown" /\ outcome[n].status = 401
  /\ \E n \in DOMAIN outcome : outcome[n].state = "thrown" /\ outcome[n].status = 500
  /\ \E n \in DOMAIN outcome :
       outcome[n].endpoint = "/auth/login" /\ outcome[n].state = "returned"

=============================================================================
